---- MODULE Spec2Model ----
(***************************************************************************)
(* kvstore: an append-only, checksummed key/value log (ActionKV) with an   *)
(* in-memory index from key to record offset.                              *)
(*                                                                         *)
(* Bytes are numbers 0..255, strings are sequences of bytes (Rust Strings  *)
(* are valid UTF-8 byte sequences).  The file is a sequence of bytes; the  *)
(* open File has one cursor shared by every reader and writer built on it. *)
(***************************************************************************)
EXTENDS Integers, Sequences, FiniteSets, TLC

(***************************************************************************)
(* Bounds of the model.                                                    *)
(***************************************************************************)
\* Number of records the calls of one behaviour may append.
MaxRecords == 3
\* Capacity of the std BufReader / BufWriter built by BufReader::new and
\* BufWriter::new.  std uses 8192; the model scales it down so that a log
\* longer than the buffer fits in MaxRecords records.  It stays larger than
\* the 12-byte record header, as in the program.
BufCap == 16
Min(a, b) == IF a < b THEN a ELSE b

(***************************************************************************)
(* Byte strings used as keys and values: "" and "a", "" and the two-byte   *)
(* UTF-8 character U+00E9.                                                 *)
(***************************************************************************)
Keys == { <<>>, <<97>> }
Values == { <<>>, <<195, 169>> }

(***************************************************************************)
(* Bit operations on naturals.                                             *)
(***************************************************************************)
RECURSIVE Xor(_, _)
Xor(a, b) ==
  IF a = 0 THEN b
  ELSE IF b = 0 THEN a
  ELSE (((a % 2) + (b % 2)) % 2) + 2 * Xor(a \div 2, b \div 2)

(***************************************************************************)
(* 32-bit unsigned values are kept as their four big-endian bytes, the     *)
(* form they have in the file, because TLC's numbers stop below 2^32.      *)
(***************************************************************************)
\* file.write_u32::<BigEndian>(n as u32)
write_u32(n) ==
  << (n \div 16777216) % 256, (n \div 65536) % 256, (n \div 256) % 256, n % 256 >>

\* A u32 used as a byte count (`as usize`, `as u64`).  Counts of 2^31 and
\* more are saturated just below 2^31: the file is far shorter, so any such
\* count acts the same as the true one.
U32Nat(b) == Min(b[1], 127) * 16777216 + b[2] * 65536 + b[3] * 256 + b[4]

\* key_length + value_length on u32: the wrapped sum and whether it overflowed.
AddU32(a, b) ==
  LET s4 == a[4] + b[4]
      s3 == a[3] + b[3] + s4 \div 256
      s2 == a[2] + b[2] + s3 \div 256
      s1 == a[1] + b[1] + s2 \div 256
  IN [sum |-> << s1 % 256, s2 % 256, s3 % 256, s4 % 256 >>,
      overflow |-> s1 >= 256]

(***************************************************************************)
(* crc::CRC_32_CKSUM: width 32, poly 0x04c11db7, init 0, no reflection,    *)
(* xorout 0xffffffff.  The register is four bytes, most significant first. *)
(***************************************************************************)
CrcPoly == << 4, 193, 29, 183 >>

XorBytes(a, b) == << Xor(a[1], b[1]), Xor(a[2], b[2]), Xor(a[3], b[3]), Xor(a[4], b[4]) >>

RECURSIVE CrcShift(_, _)
\* n steps of the bitwise register update, most significant bit first.
CrcShift(reg, n) ==
  IF n = 0 THEN reg
  ELSE LET sh == << ((reg[1] * 2) % 256) + (reg[2] \div 128),
                     ((reg[2] * 2) % 256) + (reg[3] \div 128),
                     ((reg[3] * 2) % 256) + (reg[4] \div 128),
                     (reg[4] * 2) % 256 >>
       IN CrcShift(IF reg[1] >= 128 THEN XorBytes(sh, CrcPoly) ELSE sh, n - 1)

\* The byte-indexed table of the register update.
CrcTable == [b \in 0..255 |-> CrcShift(<< b, 0, 0, 0 >>, 8)]

RECURSIVE CrcUpdate(_, _, _)
CrcUpdate(reg, data, i) ==
  IF i > Len(data) THEN reg
  ELSE CrcUpdate(XorBytes(<< reg[2], reg[3], reg[4], 0 >>,
                          CrcTable[Xor(reg[1], data[i])]),
                 data, i + 1)

\* crc.checksum(&data), as the four bytes write_u32 stores.
checksum(data) == XorBytes(CrcUpdate(<< 0, 0, 0, 0 >>, data, 1), << 255, 255, 255, 255 >>)

(***************************************************************************)
(* String::from_utf8_lossy: every maximal invalid byte sequence becomes    *)
(* U+FFFD (EF BF BD); valid UTF-8 is kept byte for byte.                   *)
(***************************************************************************)
Replacement == <<239, 191, 189>>

IsCont(s, i) == i <= Len(s) /\ s[i] >= 128 /\ s[i] <= 191

\* Whether byte i+1 may follow the lead byte s[i] of a 3- or 4-byte sequence.
SecondOk(s, i) ==
  /\ i + 1 <= Len(s)
  /\ LET a == s[i]
         b == s[i + 1]
     IN CASE a = 224 -> b >= 160 /\ b <= 191
          [] a = 237 -> b >= 128 /\ b <= 159
          [] a = 240 -> b >= 144 /\ b <= 191
          [] a = 244 -> b >= 128 /\ b <= 143
          [] OTHER   -> b >= 128 /\ b <= 191

\* Length of the chunk starting at i and whether it is valid UTF-8.
Utf8Chunk(s, i) ==
  LET a == s[i]
  IN IF a < 128 THEN [len |-> 1, valid |-> TRUE]
     ELSE IF a >= 194 /\ a <= 223
       THEN IF IsCont(s, i + 1) THEN [len |-> 2, valid |-> TRUE]
            ELSE [len |-> 1, valid |-> FALSE]
     ELSE IF a >= 224 /\ a <= 239
       THEN IF ~SecondOk(s, i) THEN [len |-> 1, valid |-> FALSE]
            ELSE IF ~IsCont(s, i + 2) THEN [len |-> 2, valid |-> FALSE]
            ELSE [len |-> 3, valid |-> TRUE]
     ELSE IF a >= 240 /\ a <= 244
       THEN IF ~SecondOk(s, i) THEN [len |-> 1, valid |-> FALSE]
            ELSE IF ~IsCont(s, i + 2) THEN [len |-> 2, valid |-> FALSE]
            ELSE IF ~IsCont(s, i + 3) THEN [len |-> 3, valid |-> FALSE]
            ELSE [len |-> 4, valid |-> TRUE]
     ELSE [len |-> 1, valid |-> FALSE]

RECURSIVE Utf8From(_, _)
Utf8From(s, i) ==
  IF i > Len(s) THEN <<>>
  ELSE LET c == Utf8Chunk(s, i)
       IN (IF c.valid THEN SubSeq(s, i, i + c.len - 1) ELSE Replacement)
          \o Utf8From(s, i + c.len)

from_utf8_lossy(s) == Utf8From(s, 1)

(***************************************************************************)
(* The state.                                                              *)
(***************************************************************************)
VARIABLES
  disk,      \* the bytes of the log file
  opened,    \* whether an ActionKV handle exists
  cursor,    \* ActionKV.file: the offset of the open File's cursor
  database,  \* ActionKV.database: key -> offset
  appended,  \* history: the records written to the file, [key, value, offset]
  last,      \* history: the last call and its result
  writes,    \* history: per key, the successful inserts in a row on this handle
  fault      \* history: the damage done to the file from outside, if any

vars == << disk, opened, cursor, database, appended, last, writes, fault >>

\* HashMap::new()
EmptyMap == [k \in {} |-> 0]

\* HashMap::insert
Put(db, k, v) == [x \in (DOMAIN db) \cup {k} |-> IF x = k THEN v ELSE db[x]]

(***************************************************************************)
(* Results of calls.                                                       *)
(***************************************************************************)
Ok(v) == [tag |-> "Ok", kind |-> "", msg |-> "", val |-> v]
Err(kind, msg) == [tag |-> "Err", kind |-> kind, msg |-> msg, val |-> <<>>]
Panic(msg) == [tag |-> "Panic", kind |-> "", msg |-> msg, val |-> <<>>]

NotFound == Err("InvalidData", "not found")
ChecksumMismatch == Err("InvalidData", "checksum mismatch")

(***************************************************************************)
(* std::io::BufReader over the file d.  rp is the position of the next     *)
(* byte the reader hands out and fc the file cursor; the bytes between     *)
(* them are the buffer.  A read with an empty buffer refills it with up to *)
(* BufCap bytes, or goes straight to the file when BufCap or more bytes    *)
(* are asked for.  Reads n bytes or stops short at end of file.            *)
(***************************************************************************)
RECURSIVE buf_read(_, _, _, _)
buf_read(d, rp, fc, n) ==
  IF n = 0 THEN [rp |-> rp, fc |-> fc, short |-> FALSE]
  ELSE IF rp < fc
    THEN LET m == Min(n, fc - rp) IN buf_read(d, rp + m, fc, n - m)
  ELSE IF Len(d) <= fc
    THEN [rp |-> rp, fc |-> fc, short |-> TRUE]
  ELSE IF n >= BufCap
    THEN LET m == Min(n, Len(d) - fc) IN buf_read(d, rp + m, fc + m, n - m)
  ELSE buf_read(d, rp, fc + Min(BufCap, Len(d) - fc), n)

\* The bytes of d from offset a up to offset b.
Bytes(d, a, b) == SubSeq(d, a + 1, b)

(***************************************************************************)
(* ActionKV::process_record on a reader at (rp, fc): the set of outcomes.  *)
(* The set has two members only when key_length + value_length overflows   *)
(* u32: the sum panics with overflow checks on and wraps with them off.    *)
(***************************************************************************)
RecordOutcome(res, key, rp, fc) == [res |-> res, key |-> key, rp |-> rp, fc |-> fc]

\* read_payload with the checksum comparison left out.
read_payload_unchecked(d, saved_checksum, key_length, data_length, rp, fc) ==
  LET r    == buf_read(d, rp, fc, U32Nat(data_length))
      data == Bytes(d, rp, r.rp)
      kl   == U32Nat(key_length)
  IN IF kl > Len(data)
       THEN RecordOutcome(Panic("split_at"), <<>>, r.rp, r.fc)
     ELSE RecordOutcome(Ok(from_utf8_lossy(SubSeq(data, kl + 1, Len(data)))),
                        from_utf8_lossy(SubSeq(data, 1, kl)), r.rp, r.fc)

\* Lines 150-170: the payload of data_length bytes, its checksum, the split.
read_payload(d, saved_checksum, key_length, data_length, rp, fc) ==
  LET r    == buf_read(d, rp, fc, U32Nat(data_length))
      data == Bytes(d, rp, r.rp)
      kl   == U32Nat(key_length)
  IN IF saved_checksum # checksum(data)
       THEN RecordOutcome(ChecksumMismatch, <<>>, r.rp, r.fc)
     ELSE IF kl > Len(data)
       THEN RecordOutcome(Panic("split_at"), <<>>, r.rp, r.fc)
     ELSE RecordOutcome(Ok(from_utf8_lossy(SubSeq(data, kl + 1, Len(data)))),
                        from_utf8_lossy(SubSeq(data, 1, kl)), r.rp, r.fc)

process_record(d, rp, fc) ==
  LET h1 == buf_read(d, rp, fc, 4)
      h2 == buf_read(d, h1.rp, h1.fc, 4)
      h3 == buf_read(d, h2.rp, h2.fc, 4)
      saved_checksum == Bytes(d, rp, rp + 4)
      key_length     == Bytes(d, rp + 4, rp + 8)
      value_length   == Bytes(d, rp + 8, rp + 12)
      data_length    == AddU32(key_length, value_length)
  IN IF h1.short
       THEN {RecordOutcome(Err("UnexpectedEof", ""), <<>>, h1.rp, h1.fc)}
     ELSE IF h2.short
       THEN {RecordOutcome(Err("UnexpectedEof", ""), <<>>, h2.rp, h2.fc)}
     ELSE IF h3.short
       THEN {RecordOutcome(Err("UnexpectedEof", ""), <<>>, h3.rp, h3.fc)}
     ELSE IF data_length.overflow
       THEN {RecordOutcome(Panic("add overflow"), <<>>, h3.rp, h3.fc),
             read_payload(d, saved_checksum, key_length, data_length.sum, h3.rp, h3.fc)}
     ELSE {read_payload(d, saved_checksum, key_length, data_length.sum, h3.rp, h3.fc)}

(***************************************************************************)
(* ActionKV::load: the scan of the whole file from the reader at (rp, fc), *)
(* filling db.  The set of outcomes [res, database, fc].                   *)
(***************************************************************************)
RECURSIVE load(_, _, _, _)
RECURSIVE load_first_wins(_, _, _, _)
\* load that keeps the first offset scanned for a key.
load_first_wins(d, rp, fc, db) ==
  UNION { IF r.res.tag = "Ok"
            THEN load_first_wins(d, r.rp, r.fc,
                                 IF r.key \in DOMAIN db THEN db ELSE Put(db, r.key, rp))
          ELSE IF r.res.tag = "Err" /\ r.res.kind = "UnexpectedEof"
            THEN {[res |-> Ok(<<>>), database |-> db, fc |-> r.fc]}
          ELSE {[res |-> r.res, database |-> db, fc |-> r.fc]}
        : r \in process_record(d, rp, fc) }

load(d, rp, fc, db) ==
  UNION { IF r.res.tag = "Ok"
            THEN load(d, r.rp, r.fc, Put(db, r.key, rp))
          ELSE IF r.res.tag = "Err" /\ r.res.kind = "UnexpectedEof"
            THEN {[res |-> Ok(<<>>), database |-> db, fc |-> r.fc]}
          ELSE {[res |-> r.res, database |-> db, fc |-> r.fc]}
        : r \in process_record(d, rp, fc) }

\* ActionKV::get_record_at_position: a new reader, seek, one record.
get_record_at_position(d, position) == process_record(d, position, position)

(***************************************************************************)
(* ActionKV::insert_in_database.  io says whether the file accepts the     *)
(* append: with "fail" stream_position / seek return an I/O error and      *)
(* nothing is written.  The position returned is the file cursor before    *)
(* the seek to the end.  The file is in append mode: the record lands at   *)
(* the end of the file and leaves the cursor there.                        *)
(* With "lost" the file refuses the write itself.  The writes go to the    *)
(* BufWriter built at line 131; a record that fits its buffer reaches the  *)
(* file only when the BufWriter is dropped at the end of the function,     *)
(* and an error of that flush is ignored: the function returns Ok and      *)
(* nothing is written.  A record that does not fit the buffer is written   *)
(* before the function returns, and the error is returned.                 *)
(***************************************************************************)
\* Record with the checksum taken over the value alone.
Record_value_checksum(key, value) ==
  checksum(value) \o write_u32(Len(key)) \o write_u32(Len(value))
    \o key \o value

Record(key, value) ==
  checksum(key \o value) \o write_u32(Len(key)) \o write_u32(Len(value))
    \o key \o value

insert_in_database(d, cur, key, value, io) ==
  IF io = "fail"
    THEN [res |-> Err("Other", "io"), position |-> 0, disk |-> d, cursor |-> cur]
  ELSE IF io = "lost"
    THEN IF 12 + Len(key) + Len(value) <= BufCap
           THEN [res |-> Ok(<<>>), position |-> cur, disk |-> d, cursor |-> Len(d)]
           ELSE [res |-> Err("Other", "io"), position |-> 0, disk |-> d,
                 cursor |-> Len(d)]
  ELSE LET current_position == cur
           written == d \o Record(key, value)
       IN [res |-> Ok(<<>>), position |-> current_position,
           disk |-> written, cursor |-> Len(written)]

(***************************************************************************)
(* The calls.  Every call is recorded in last with its result; io is what  *)
(* the file did to the append the call asked for ("none": no append).      *)
(***************************************************************************)
Call(op, key, value, res, io) ==
  [op |-> op, key |-> key, value |-> value, res |-> res, io |-> io]

NoCall == Call("none", <<>>, <<>>, Ok(<<>>), "none")

NoWrites == [k \in Keys |-> 0]

NoFault == [kind |-> "none", offset |-> 0, index |-> 0]

Init ==
  /\ disk = <<>>
  /\ opened = FALSE
  /\ cursor = 0
  /\ database = EmptyMap
  /\ appended = <<>>
  /\ last = NoCall
  /\ writes = NoWrites
  /\ fault = NoFault

\* The handle goes away: dropped, never returned by open, or lost to a panic.
NoHandle ==
  /\ opened' = FALSE
  /\ cursor' = 0
  /\ database' = EmptyMap
  /\ writes' = NoWrites

\* ActionKV::open: the file is opened for reading and appending, created if
\* absent and never truncated; the cursor of the new File starts at 0.
open ==
  /\ ~opened
  /\ \E r \in load(disk, 0, 0, EmptyMap) :
       /\ IF r.res.tag = "Ok"
            THEN /\ opened' = TRUE
                 /\ cursor' = r.fc
                 /\ database' = r.database
                 /\ writes' = NoWrites
            ELSE NoHandle
       /\ last' = Call("open", <<>>, <<>>, r.res, "none")
  /\ UNCHANGED << disk, appended, fault >>

\* The handle is dropped, which closes the file.
drop ==
  /\ opened
  /\ NoHandle
  /\ last' = Call("drop", <<>>, <<>>, Ok(<<>>), "none")
  /\ UNCHANGED << disk, appended, fault >>

\* ActionKV::get
get(key) ==
  /\ opened
  /\ IF key \notin DOMAIN database
       THEN /\ last' = Call("get", key, <<>>, NotFound, "none")
            /\ UNCHANGED << opened, cursor, database, writes >>
       ELSE \E r \in get_record_at_position(disk, database[key]) :
              /\ last' = Call("get", key, <<>>, r.res, "none")
              /\ IF r.res.tag = "Panic"
                   THEN NoHandle
                   ELSE /\ cursor' = r.fc
                        /\ UNCHANGED << opened, database, writes >>
  /\ UNCHANGED << disk, appended, fault >>

\* The history of appended records after an append attempt.
Appended(app, d, key, value, io) ==
  IF io = "ok"
    THEN Append(app, [key |-> key, value |-> value, offset |-> Len(d)])
    ELSE app

\* The body shared by insert and update (update calls insert).
insert_as(op, key, value, io) ==
  /\ opened
  /\ io = "ok" => Len(appended) < MaxRecords
  /\ LET r == insert_in_database(disk, cursor, key, value, io)
     IN /\ disk' = r.disk
        /\ cursor' = r.cursor
        /\ IF r.res.tag = "Ok"
             THEN database' = Put(database, key, r.position)
             ELSE database' = database
        /\ writes' = IF r.res.tag = "Ok"
                        THEN [writes EXCEPT ![key] = Min(@ + 1, 2)]
                        ELSE writes
        /\ last' = Call(op, key, value, r.res, io)
  /\ appended' = Appended(appended, disk, key, value, io)
  /\ UNCHANGED << opened, fault >>

\* ActionKV::insert
insert(key, value, io) == insert_as("insert", key, value, io)

\* update that refuses a key that is not in the index.
update_checked(key, value, io) ==
  IF key \in DOMAIN database
    THEN insert_as("update", key, value, io)
    ELSE /\ opened
         /\ last' = Call("update", key, value, NotFound, "none")
         /\ UNCHANGED << disk, opened, cursor, database, appended, writes, fault >>

\* ActionKV::update
update(key, value, io) == insert_as("update", key, value, io)

\* delete without the contains_key check.
delete_unchecked(key, io) ==
  /\ opened
  /\ io # "none"
  /\ io = "ok" => Len(appended) < MaxRecords
  /\ LET r == insert_in_database(disk, cursor, key, <<>>, io)
     IN /\ disk' = r.disk
        /\ cursor' = r.cursor
  /\ last' = Call("delete", key, <<>>, Ok(<<>>), io)
  /\ appended' = Appended(appended, disk, key, <<>>, io)
  /\ writes' = [writes EXCEPT ![key] = 0]
  /\ UNCHANGED << opened, database, fault >>

\* ActionKV::delete: the result of the append is discarded and the index
\* is not touched.
delete(key, io) ==
  /\ opened
  /\ IF key \notin DOMAIN database
       THEN /\ io = "none"
            /\ last' = Call("delete", key, <<>>, NotFound, "none")
            /\ UNCHANGED << disk, cursor, appended, writes >>
       ELSE /\ io # "none"
            /\ io = "ok" => Len(appended) < MaxRecords
            /\ LET r == insert_in_database(disk, cursor, key, <<>>, io)
               IN /\ disk' = r.disk
                  /\ cursor' = r.cursor
            /\ last' = Call("delete", key, <<>>, Ok(<<>>), io)
            /\ appended' = Appended(appended, disk, key, <<>>, io)
            /\ writes' = [writes EXCEPT ![key] = 0]
  /\ UNCHANGED << opened, database, fault >>

Next ==
  \/ open
  \/ drop
  \/ \E key \in Keys : get(key)
  \/ \E key \in Keys, value \in Values, io \in {"ok", "fail"} : insert(key, value, io)
  \/ \E key \in Keys, value \in Values, io \in {"ok", "fail"} : update(key, value, io)
  \/ \E key \in Keys, io \in {"none", "ok", "fail"} : delete(key, io)

Spec == Init /\ [][Next]_vars

(***************************************************************************)
(* The same calls on a file that may also refuse the write of a record     *)
(* (a full disk, a failing device), while the log holds at most            *)
(* MaxLostRecords records.                                                 *)
(***************************************************************************)
MaxLostRecords == 1

NextLost ==
  \/ Next
  \/ /\ Len(appended) <= MaxLostRecords
     /\ \/ \E key \in Keys, value \in Values : insert(key, value, "lost")
        \/ \E key \in Keys, value \in Values : update(key, value, "lost")
        \/ \E key \in Keys : delete(key, "lost")

SpecLost == Init /\ [][NextLost]_vars

(***************************************************************************)
(* Damage to the file from outside the program, for the claims about       *)
(* corrupt and truncated logs.  A behaviour suffers at most one, on a log  *)
(* of at most MaxDamagedRecords records, and nothing is appended after it. *)
(***************************************************************************)
MaxDamagedRecords == 2

Last(h) == h[Len(h)]

RECURSIVE Pow2(_)
Pow2(n) == IF n = 0 THEN 1 ELSE 2 * Pow2(n - 1)

\* One bit of byte i of the payload (key ++ value) of the n-th record flips.
flip_bit(n, i, bit) ==
  /\ fault.kind = "none"
  /\ Len(appended) <= MaxDamagedRecords
  /\ n \in 1..Len(appended)
  /\ i \in 1..(Len(appended[n].key) + Len(appended[n].value))
  /\ LET at == appended[n].offset + 12 + i
     IN disk' = [disk EXCEPT ![at] = Xor(@, Pow2(bit))]
  /\ fault' = [kind |-> "flip", offset |-> appended[n].offset, index |-> n]
  /\ last' = Call("flip", <<>>, <<>>, Ok(<<>>), "none")
  /\ UNCHANGED << opened, cursor, database, appended, writes >>

\* The file loses its tail while no handle is open: it is cut to n bytes.
truncate(n) ==
  /\ fault.kind = "none"
  /\ ~opened
  /\ Len(appended) <= MaxDamagedRecords
  /\ n \in 0..(Len(disk) - 1)
  /\ disk' = SubSeq(disk, 1, n)
  /\ fault' = [kind |-> "truncate", offset |-> n, index |-> 0]
  /\ last' = Call("truncate", <<>>, <<>>, Ok(<<>>), "none")
  /\ UNCHANGED << opened, cursor, database, appended, writes >>

NextFault ==
  \/ fault.kind = "none" /\ Next
  \/ fault.kind # "none" /\ (open \/ drop \/ \E key \in Keys : get(key))
  \/ \E n \in 1..MaxDamagedRecords, i \in 1..3, bit \in 0..7 : flip_bit(n, i, bit)
  \/ \E n \in 0..(Len(disk) - 1) : truncate(n)

SpecFault == Init /\ [][NextFault]_vars

(***************************************************************************)
(* Observations used by the properties.                                    *)
(***************************************************************************)
\* What get(key) returns on a handle with index db over the file d.
get_results(d, db, key) ==
  IF key \notin DOMAIN db THEN {NotFound}
  ELSE {r.res : r \in get_record_at_position(d, db[key])}

\* The records appended for key, in order.
RecordsOf(app, key) == SelectSeq(app, LAMBDA r : r.key = key)

\* What the log says about key: the value of its last record.
Latest(app, key) ==
  IF RecordsOf(app, key) = <<>> THEN NotFound
  ELSE Ok(Last(RecordsOf(app, key)).value)


(***************************************************************************)
(* C1.  Round trip on one handle: an insert(k, v) that returns Ok followed *)
(* immediately by get(k) on the same handle returns Ok(v).                 *)
(* Fails: insert records the file cursor, which a get on a log longer than *)
(* the reader's buffer leaves before the end of the file.                  *)
(***************************************************************************)
C1_RoundTrip ==
  [][ \A key \in Keys :
        (/\ last.op = "insert" /\ last.res.tag = "Ok" /\ last.key = key
         /\ get(key))
        => last'.res = Ok(last.value)
    ]_vars

(***************************************************************************)
(* C2.  Delete-then-get: a delete(k) that returns Ok followed by get(k) on *)
(* the same handle returns Ok with the empty value.                        *)
(* Fails even when the tombstone was appended: delete leaves the index at  *)
(* the old record.                                                         *)
(***************************************************************************)
C2_DeleteThenGet ==
  [][ \A key \in Keys :
        (/\ last.op = "delete" /\ last.res.tag = "Ok" /\ last.io = "ok"
         /\ last.key = key
         /\ get(key))
        => last'.res = Ok(<<>>)
    ]_vars

(***************************************************************************)
(* C3.  Recovery idempotence: whenever a handle is open, dropping it and   *)
(* opening the same file gives a handle on which get(key) returns, for     *)
(* every key, what it returns on the old handle.                           *)
(* Fails after a delete, whose tombstone only a reopen sees.               *)
(***************************************************************************)
C3_RecoveryIdempotence ==
  opened
  => \A r \in load(disk, 0, 0, EmptyMap) :
       /\ r.res.tag = "Ok"
       /\ \A key \in Keys :
            get_results(disk, r.database, key) = get_results(disk, database, key)

(***************************************************************************)
(* C4.  Reopen resolves each key to its latest record: on a handle just    *)
(* returned by open, get(k) returns the value of the last record appended  *)
(* for k (empty for a tombstone) and not-found for a key with no record;   *)
(* a get called right after the open returns exactly that.                 *)
(***************************************************************************)
C4_ReopenLatest ==
  last.op = "open"
  => /\ opened
     /\ last.res.tag = "Ok"
     /\ \A key \in Keys : get_results(disk, database, key) = {Latest(appended, key)}

C4_ReopenThenGet ==
  [][ \A key \in Keys :
        (last.op = "open" /\ last.res.tag = "Ok" /\ get(key))
        => last'.res = Latest(appended, key)
    ]_vars

C4_Reopen == []C4_ReopenLatest /\ C4_ReopenThenGet

\* Reached: a handle just returned by open over a log in which one key was
\* written twice with different values and another key ends in a tombstone;
\* the index points at the second record of the first key.
C4_Witness ==
  /\ opened /\ last.op = "open"
  /\ \E key \in Keys :
       /\ Len(RecordsOf(appended, key)) = 2
       /\ RecordsOf(appended, key)[1].value # RecordsOf(appended, key)[2].value
       /\ database[key] = RecordsOf(appended, key)[2].offset
       /\ get_results(disk, database, key) = {Ok(<<195, 169>>)}
       /\ \E other \in Keys : other # key /\ Latest(appended, other) = Ok(<<>>)

(***************************************************************************)
(* C5.  Last-write-wins: when the last two writes to k on a handle are     *)
(* successful inserts or updates (v1, then v2), a get(k) on that handle    *)
(* returns Ok(v2).                                                         *)
(* Fails when a get comes between the two writes and leaves the cursor     *)
(* before the end of the file: the second insert records a wrong offset.   *)
(***************************************************************************)
C5_LastWriteWins ==
  (last.op = "get" /\ writes[last.key] = 2)
  => last.res = Latest(appended, last.key)

(***************************************************************************)
(* C6.  Append-only growth: no step shortens the file or changes a byte    *)
(* already in it, and a successful insert, update or delete makes the file *)
(* strictly longer.                                                        *)
(* Fails: a delete whose append the file refused still returns Ok, and the *)
(* file is as long as before.                                              *)
(***************************************************************************)
IsPrefix(a, b) == Len(a) <= Len(b) /\ SubSeq(b, 1, Len(a)) = a

MutatingCall ==
  \/ \E key \in Keys, value \in Values, io \in {"ok", "fail"} :
       insert(key, value, io) \/ update(key, value, io)
  \/ \E key \in Keys, io \in {"ok", "fail"} : delete(key, io)

C6_AppendOnly ==
  [][ /\ IsPrefix(disk, disk')
      /\ (MutatingCall /\ last'.res.tag = "Ok") => Len(disk') > Len(disk)
    ]_vars

(***************************************************************************)
(* C7.  Corruption detection: after one bit of the key or value bytes of a *)
(* stored record has flipped, a get through an index entry that points at  *)
(* that record, and the scan of open, end with the checksum-mismatch       *)
(* error, never with Ok.                                                   *)
(***************************************************************************)
PointsAtDamage(key) == key \in DOMAIN database /\ database[key] = fault.offset

C7_CorruptionDetected ==
  fault.kind = "flip"
  => /\ \A r \in load(disk, 0, 0, EmptyMap) : r.res = ChecksumMismatch
     /\ \A key \in Keys :
          (opened /\ PointsAtDamage(key))
          => get_results(disk, database, key) = {ChecksumMismatch}
     /\ last.op = "open" => last.res = ChecksumMismatch
     /\ (last.op = "get" /\ opened /\ PointsAtDamage(last.key))
        => last.res = ChecksumMismatch

\* Reached: a get of the key whose indexed record had a bit flipped.
C7_Witness ==
  /\ fault.kind = "flip"
  /\ last.op = "get"
  /\ opened /\ PointsAtDamage(last.key)
  /\ last.res = ChecksumMismatch

(***************************************************************************)
(* C8.  open succeeds exactly when the file is a concatenation of complete *)
(* checksum-valid records, and returns an error otherwise.                 *)
(* Fails: a file that ends inside a 12-byte header opens successfully.     *)
(***************************************************************************)
RECURSIVE WellFormed(_)
WellFormed(d) ==
  \/ d = <<>>
  \/ /\ Len(d) >= 12
     /\ LET kl == U32Nat(SubSeq(d, 5, 8))
            vl == U32Nat(SubSeq(d, 9, 12))
        IN /\ kl <= Len(d) /\ vl <= Len(d)
           /\ 12 + kl + vl <= Len(d)
           /\ checksum(SubSeq(d, 13, 12 + kl + vl)) = SubSeq(d, 1, 4)
           /\ WellFormed(SubSeq(d, 13 + kl + vl, Len(d)))

C8_OpenIffWellFormed ==
  last.op = "open"
  => IF WellFormed(disk) THEN last.res.tag = "Ok"
                         ELSE last.res.tag = "Err"

(***************************************************************************)
(* C9.  No error is suppressed: a call whose append the file refused       *)
(* returns an error.                                                       *)
(* Fails: delete discards the result of insert_in_database and returns Ok. *)
(***************************************************************************)
C9_NoErrorSuppressed == last.io = "fail" => last.res.tag = "Err"

(***************************************************************************)
(* C10.  Operations on an absent key fail and change nothing: get(k) and   *)
(* delete(k) for a key that is not in the index return the not-found error *)
(* and leave the file and the index as they were.                          *)
(***************************************************************************)
C10_AbsentKey ==
  [][ \A key \in Keys :
        (/\ opened
         /\ key \notin DOMAIN database
         /\ get(key) \/ \E io \in {"none", "ok", "fail"} : delete(key, io))
        => /\ last'.res = NotFound
           /\ disk' = disk
           /\ database' = database
    ]_vars

\* Reached: delete of an absent key was refused on a handle whose log and
\* index hold a record of another key.
C10_Witness ==
  /\ opened
  /\ last.op = "delete"
  /\ last.key \notin DOMAIN database
  /\ last.res = NotFound
  /\ database # EmptyMap

(***************************************************************************)
(* C11.  Error kinds of get are distinguishable: the error for an absent   *)
(* key, the error for a checksum mismatch at the indexed offset and the    *)
(* error for end of file at that offset carry three different error kinds. *)
(* Fails: not-found and checksum mismatch are both ErrorKind::InvalidData; *)
(* only the message tells them apart.                                      *)
(***************************************************************************)
C11_ErrorKindsDistinct ==
  (last.op = "get" /\ last.res.tag = "Err")
  => /\ last.key \in DOMAIN database => last.res.kind # NotFound.kind
     /\ last.res.msg = ChecksumMismatch.msg => last.res.kind # "UnexpectedEof"

(***************************************************************************)
(* C12.  update is insert: in every state, update(k, v) returns the result *)
(* and leaves the file, the index and the cursor that insert(k, v) gives   *)
(* from that state (lines 68-72), whether or not k is in the index.        *)
(***************************************************************************)
C12_UpdateIsInsert ==
  [][ \A key \in Keys, value \in Values, io \in {"ok", "fail", "lost"} :
        update(key, value, io)
        => LET position == insert_in_database(disk, cursor, key, value, io)
           IN /\ last'.res = position.res
              /\ disk' = position.disk
              /\ cursor' = position.cursor
              /\ database' = IF position.res.tag = "Ok"
                               THEN Put(database, key, position.position)
                               ELSE database
    ]_vars

\* Reached: update succeeded for a key that had no record and was not in the
\* index, on a handle that holds another key.
C12_Witness ==
  /\ opened
  /\ last.op = "update" /\ last.res.tag = "Ok"
  /\ Len(RecordsOf(appended, last.key)) = 1
  /\ DOMAIN database = Keys

(***************************************************************************)
(* C13.  Append returns the record's start: after a successful insert or   *)
(* update, the offset insert_in_database returned, which insert stored in  *)
(* the index, is the offset at which the record just written begins (the   *)
(* length of the file before the write).                                   *)
(* Fails: the offset returned is the file cursor before the seek to the    *)
(* end, which a get that stopped before end of file left inside the log.   *)
(***************************************************************************)
C13_AppendOffset ==
  (opened /\ last.op \in {"insert", "update"} /\ last.res.tag = "Ok")
  => database[last.key] = Last(appended).offset

(***************************************************************************)
(* C14.  Index validity: on an open handle over a log only this store      *)
(* wrote, every offset in the index is the start of a record of the log,   *)
(* and reading a record there gives a checksum-valid record with the key   *)
(* of the index entry.                                                     *)
(* Fails after an insert that stored the cursor a get left inside the log. *)
(***************************************************************************)
C14_IndexValid ==
  opened
  => \A key \in DOMAIN database :
       /\ \E n \in 1..Len(appended) :
            appended[n].offset = database[key] /\ appended[n].key = key
       /\ \A r \in get_record_at_position(disk, database[key]) :
            r.res.tag = "Ok" /\ r.key = key

(***************************************************************************)
(* C15.  The index stays in sync with every write: on an open handle, the  *)
(* index entry of every key is the offset of the last record appended for  *)
(* that key; no later record of the key lies beyond the indexed one.       *)
(* Fails after a delete: the tombstone is appended and the index still     *)
(* holds the offset of the record before it.                               *)
(***************************************************************************)
C15_IndexInSync ==
  opened
  => \A key \in DOMAIN database :
       /\ RecordsOf(appended, key) # <<>>
       /\ database[key] = Last(RecordsOf(appended, key)).offset

(***************************************************************************)
(* C16.  Keys are independent and each mutation is one append: an insert,  *)
(* update or delete of key k that returns Ok appends exactly one record,   *)
(* with key k, and leaves alone the index entry of every other key and     *)
(* what get returns for it.                                                *)
(* Fails: a delete whose append the file refused returns Ok and appends    *)
(* nothing.                                                                *)
(***************************************************************************)
OthersUntouched(key) ==
  \A other \in Keys \ {key} :
    /\ other \in DOMAIN database <=> other \in DOMAIN database'
    /\ other \in DOMAIN database => database'[other] = database[other]
    /\ get_results(disk', database', other) = get_results(disk, database, other)

OneAppend(key) ==
  \E value \in Values : disk' = disk \o Record(key, value)

C16_OneAppendPerMutation ==
  [][ (MutatingCall /\ last'.res.tag = "Ok")
      => OneAppend(last'.key) /\ OthersUntouched(last'.key)
    ]_vars

(***************************************************************************)
(* C17.  A failed insert leaves the index unchanged: an insert or update   *)
(* whose append failed returns an error and leaves the index as it was;    *)
(* the index changes only after an append that reached the file.           *)
(* Fails: when the file refuses the write of a record that fits the        *)
(* BufWriter's buffer, the error is lost in the BufWriter's drop, the call *)
(* returns Ok and the index gets an entry for a record that is not there.  *)
(***************************************************************************)
C17_FailedInsertKeepsIndex ==
  [][ \A key \in Keys, value \in Values, io \in {"fail", "lost"} :
        (insert(key, value, io) \/ update(key, value, io))
        => last'.res.tag = "Err" /\ database' = database
    ]_vars

(***************************************************************************)
(* C18.  The log stays well-formed: after any sequence of calls through    *)
(* handles of this store, the file is exactly the concatenation of the     *)
(* records appended, each with header lengths matching its payload and a   *)
(* checksum matching key ++ value; an open of the file succeeds and scans  *)
(* every record up to the end of the file.  A write the file refuses       *)
(* writes nothing.                                                         *)
(***************************************************************************)
RECURSIVE Concat(_)
Concat(app) ==
  IF app = <<>> THEN <<>>
  ELSE Record(app[1].key, app[1].value) \o Concat(Tail(app))

C19_KeysNeverLeave ==
  [][ /\ (opened /\ opened') => DOMAIN database \subseteq DOMAIN database'
      /\ (opened /\ ~opened')
         => \A r \in load(disk', 0, 0, EmptyMap) :
              r.res.tag = "Ok" => DOMAIN database \subseteq DOMAIN r.database
    ]_vars

(***************************************************************************)
(* Files that did not come from this store: one record header with any     *)
(* lengths, small and near 2^32, a payload, and the checksum of that       *)
(* payload.  Any file is treated as a log and scanned from offset 0.       *)
(***************************************************************************)
HeaderLengths ==
  { <<0, 0, 0, 0>>, <<0, 0, 0, 1>>, <<0, 0, 0, 2>>, <<0, 0, 0, 3>>,
    <<128, 0, 0, 0>>, <<255, 255, 255, 254>>, <<255, 255, 255, 255>> }

Payloads == { <<>>, <<97>>, <<97, 195, 169>> }

HeaderFiles ==
  { checksum(p) \o kl \o vl \o p : kl \in HeaderLengths, vl \in HeaderLengths,
                                   p \in Payloads }

InitHeader ==
  /\ disk \in HeaderFiles
  /\ opened = FALSE
  /\ cursor = 0
  /\ database = EmptyMap
  /\ appended = <<>>
  /\ last = NoCall
  /\ writes = NoWrites
  /\ fault = NoFault

NextHeader ==
  \/ open
  \/ drop
  \/ \E key \in Keys : get(key)

SpecHeader == InitHeader /\ [][NextHeader]_vars

(***************************************************************************)
(* C20.  Payload length arithmetic: for a header with any two 32-bit       *)
(* lengths, process_record reads key_length + value_length payload bytes   *)
(* (the true sum; as many of them as the file holds), without arithmetic   *)
(* failure, and a record it returns has the first key_length payload bytes *)
(* as key and the rest as value.                                           *)
(* Fails: the sum is taken in u32 (line 149); when it passes 2^32 the      *)
(* program panics (overflow checks on) or reads the wrapped sum (off).     *)
(***************************************************************************)
\* key_length + value_length without wraparound, each length capped at the
\* length of the file d, which holds fewer payload bytes than that.
TrueLength(d) ==
  Min(U32Nat(Bytes(d, 4, 8)), Len(d)) + Min(U32Nat(Bytes(d, 8, 12)), Len(d))

C20_PayloadLength ==
  last.op = "open"
  => \A r \in process_record(disk, 0, 0) :
       /\ r.res # Panic("add overflow")
       /\ r.rp - 12 = Min(TrueLength(disk), Len(disk) - 12)
       /\ r.res.tag = "Ok"
          => LET kl == U32Nat(Bytes(disk, 4, 8))
             IN /\ r.key = from_utf8_lossy(Bytes(disk, 12, 12 + kl))
                /\ r.res.val = from_utf8_lossy(Bytes(disk, 12 + kl, r.rp))

====
